---- MODULE Spec2Model ----
(***************************************************************************)
(* Model of backend/main.py (KrishiMitra): the three HTTP handlers /chat,  *)
(* /transcribe and /detect_pest, the audit log sink and the files they     *)
(* create.  One request is handled at a time; the files and logs persist   *)
(* from one request to the next.                                           *)
(***************************************************************************)
EXTENDS Integers, Sequences, FiniteSets, TLC

\* ---- bounds of the model ----
MaxReq == 2        \* requests handled in one behaviour
MaxMsgLen == 2     \* characters of a chat message / a transcription
MaxCands == 2      \* candidates of one vision result
MaxParts == 2      \* parts of one vision result, all candidates together

\* ---- alphabets of the inputs ----
\* characters of a chat message: a whitespace and a letter
MsgChars == {" ", "a"}
\* characters of the vision model's text: whitespace, a letter that is no
\* JSON, a digit, braces, "O" = the text of a JSON object with the seven
\* well-typed members, "B" = the text of a JSON object with seven members
\* whose confidence is a number
TextChars == {" ", "x", "1", "{", "}", "O", "B"}

SeqsUpTo(S, n) == UNION {[1..k -> S] : k \in 0..n}

\* ---- str.strip() ----
RECURSIVE LStrip(_)
LStrip(s) == IF s = <<>> THEN <<>>
             ELSE IF Head(s) = " " THEN LStrip(Tail(s)) ELSE s

RECURSIVE RStrip(_)
RStrip(s) == IF s = <<>> THEN <<>>
             ELSE IF s[Len(s)] = " " THEN RStrip(SubSeq(s, 1, Len(s) - 1)) ELSE s

Strip(s) == RStrip(LStrip(s))

\* ---- response bodies ----
NoJson == [kind |-> "none", num |-> 0, fields |-> <<>>]

Body(kind, isNull, str, raw, json) ==
    [kind |-> kind, null |-> isNull, str |-> str, raw |-> raw, json |-> json]

NoResp == [status |-> 0, body |-> Body("none", FALSE, "", <<>>, NoJson)]

\* jsonify({key: str}), status
JsonResp(status, key, str) == [status |-> status, body |-> Body(key, FALSE, str, <<>>, NoJson)]

\* an exception that leaves the handler: the framework answers 500 with its
\* own error page, not with a JSON body of the handler
Uncaught == [status |-> 500, body |-> Body("uncaught", FALSE, "", <<>>, NoJson)]

NoReq == [ep |-> "none"]

\* pc        position inside the running handler (main.py 47-196)
\* req       the request: flask request (50-51, 86-89, 112-119)
\* resp      the handler's return value (54, 76, 81, 87, 102, 106, 191, 196)
\* calls     invocations of the provider client in this request (64, 95, 163)
\* provider  outcome of that invocation: "none", "raised", "empty", "returned"
\* text      detect_pest's text (167-171)
\* logFailed a log write of this request raised (31-32)
\* tmpPath   temp_path / img_path (92, 134); 0 while unassigned
\* tmpFiles  temporary files on disk, named by the request that made them
\* archive   files under uploaded_images/, named by their request (127-130)
\* chatLog   chat_logs.txt (34-35); pestLog  pest_uploads.txt (37-38)
\* nreq      requests received so far
VARIABLES pc, req, resp, calls, provider, text, logFailed, tmpPath,
          tmpFiles, archive, chatLog, pestLog, nreq

vars == <<pc, req, resp, calls, provider, text, logFailed, tmpPath,
          tmpFiles, archive, chatLog, pestLog, nreq>>

Init ==
    /\ pc = "idle"
    /\ req = NoReq
    /\ resp = NoResp
    /\ calls = 0
    /\ provider = "none"
    /\ text = <<>>
    /\ logFailed = FALSE
    /\ tmpPath = 0
    /\ tmpFiles = {}
    /\ archive = {}
    /\ chatLog = <<>>
    /\ pestLog = <<>>
    /\ nreq = 0

\* ---- the audit sink ----
\* log_event: open(file, "a") either raises (nothing is written) or the
\* line is appended.  ok is the outcome of the open/write.
log_event_truncating(log, subject, status, ok) ==
    \* the file opened with "w" instead of "a"
    IF ok THEN <<[rid |-> nreq, subject |-> subject, status |-> status]>>
    ELSE log

log_event(log, subject, status, ok) ==
    IF ok THEN Append(log, [rid |-> nreq, subject |-> subject, status |-> status])
    ELSE log

\* ---- a request arrives ----
NewRequest(r) ==
    /\ pc \in {"idle", "done"}
    /\ nreq < MaxReq
    /\ nreq' = nreq + 1
    /\ req' = r
    /\ pc' = "received"
    /\ resp' = NoResp
    /\ calls' = 0
    /\ provider' = "none"
    /\ text' = <<>>
    /\ logFailed' = FALSE
    /\ tmpPath' = 0
    /\ UNCHANGED <<tmpFiles, archive, chatLog, pestLog>>

\* POST /chat.  json: the body is "invalid" (get_json raises), a
\* "nonobject" JSON value, or an "object"; msgKind: what data.get("message")
\* yields.
ChatBodies ==
    {[ep |-> "chat", json |-> j, msgKind |-> "absent", msg |-> <<>>] : j \in {"invalid", "nonobject"}}
    \cup {[ep |-> "chat", json |-> "object", msgKind |-> k, msg |-> <<>>] :
             k \in {"absent", "null", "falsy", "number"}}
    \cup {[ep |-> "chat", json |-> "object", msgKind |-> "string", msg |-> m] :
             m \in SeqsUpTo(MsgChars, MaxMsgLen)}

ReceiveChat == \E r \in ChatBodies : NewRequest(r)

\* the message taken without .strip()
user_message_unstripped(r) == IF r.msgKind = "string" THEN r.msg ELSE <<>>

\* user_message = (data.get("message") or "").strip()
user_message(r) == IF r.msgKind = "string" THEN Strip(r.msg) ELSE <<>>

\* except Exception of chat(): log_chat_message(str(e), ...), then 500.  When
\* the log write raises, the exception leaves the handler.
ChatExcept(failedBefore, logOk) ==
    /\ chatLog' = log_event(chatLog, "error", "Chat generation failed", logOk)
    /\ logFailed' = (failedBefore \/ ~logOk)
    /\ resp' = IF logOk THEN JsonResp(500, "reply", "Error processing your message.")
               ELSE Uncaught
    /\ pc' = "done"

\* chat(), up to the validation of the message
ChatValidate ==
    /\ pc = "received" /\ req.ep = "chat"
    /\ IF req.json # "object" \/ req.msgKind = "number"
       THEN \* get_json raises, or data.get / .strip() raises AttributeError
            /\ \E ok \in BOOLEAN : ChatExcept(FALSE, ok)
            /\ UNCHANGED <<calls, provider>>
       ELSE IF user_message(req) = <<>>
       THEN /\ resp' = JsonResp(400, "reply", "Please enter a valid message.")
            /\ pc' = "done"
            /\ UNCHANGED <<calls, provider, chatLog, logFailed>>
       ELSE /\ pc' = "validated"
            /\ UNCHANGED <<resp, calls, provider, chatLog, logFailed>>
    /\ UNCHANGED <<req, text, tmpPath, tmpFiles, archive, pestLog, nreq>>

\* what client.chat.completions.create can do: raise, or return a response
\* with no choices, with choices[0].message.content None, or with a content
ChatOutcomes ==
    {[kind |-> k, content |-> <<>>] : k \in {"raises", "no_choices", "content_none"}}
    \cup {[kind |-> "content", content |-> c] : c \in SeqsUpTo(MsgChars, MaxMsgLen)}

\* jsonify({"reply": ai_reply})
ReplyResp(o) ==
    [status |-> 200,
     body |-> Body("reply", o.kind = "content_none", "", o.content, NoJson)]

\* chat(), the completion call and what follows it
ChatDelegate ==
    /\ pc = "validated" /\ req.ep = "chat"
    /\ calls' = calls + 1
    /\ \E o \in ChatOutcomes :
         IF o.kind \in {"raises", "no_choices"}
         THEN \* the call raises, or response.choices[0] raises IndexError
              /\ provider' = IF o.kind = "raises" THEN "raised" ELSE "empty"
              /\ \E ok \in BOOLEAN : ChatExcept(FALSE, ok)
         ELSE /\ provider' = IF o.kind = "content_none" THEN "empty" ELSE "returned"
              /\ \E ok1 \in BOOLEAN :
                   IF ok1
                   THEN /\ chatLog' = log_event(chatLog, "message", "Response OK", TRUE)
                        /\ resp' = ReplyResp(o)
                        /\ pc' = "done"
                        /\ UNCHANGED logFailed
                   ELSE \* log_chat_message raised inside the try block
                        \E ok2 \in BOOLEAN : ChatExcept(TRUE, ok2)
    /\ UNCHANGED <<req, text, tmpPath, tmpFiles, archive, pestLog, nreq>>

\* ---- POST /transcribe ----
ReceiveTranscribe ==
    \E f \in BOOLEAN : NewRequest([ep |-> "transcribe", hasFile |-> f])

\* except Exception of transcribe_audio(): 500, nothing is logged or removed
TranscribeExcept ==
    /\ resp' = JsonResp(500, "error", "Transcription failed")
    /\ pc' = "done"

\* transcribe_audio(), up to the saved upload.  NamedTemporaryFile(delete=
\* False) creates the file; file.save may then raise.
TranscribeValidate ==
    /\ pc = "received" /\ req.ep = "transcribe"
    /\ IF ~req.hasFile
       THEN /\ resp' = JsonResp(400, "error", "No file uploaded")
            /\ pc' = "done"
            /\ UNCHANGED <<tmpPath, tmpFiles>>
       ELSE \E o \in {"ok", "create_fails", "save_fails"} :
            CASE o = "ok" ->
                   /\ tmpFiles' = tmpFiles \cup {nreq}
                   /\ tmpPath' = nreq
                   /\ pc' = "validated"
                   /\ UNCHANGED resp
              [] o = "create_fails" ->
                   /\ TranscribeExcept
                   /\ UNCHANGED <<tmpPath, tmpFiles>>
              [] o = "save_fails" ->
                   \* the file exists, temp_path was never assigned
                   /\ tmpFiles' = tmpFiles \cup {nreq}
                   /\ TranscribeExcept
                   /\ UNCHANGED tmpPath
    /\ UNCHANGED <<req, calls, provider, text, logFailed, archive, chatLog, pestLog, nreq>>

\* jsonify({"text": result.text.strip()})
TextResp(t) == [status |-> 200, body |-> Body("text", FALSE, "", Strip(t), NoJson)]

\* transcribe_audio(), the transcription call, os.remove and the response
TranscribeDelegate ==
    /\ pc = "validated" /\ req.ep = "transcribe"
    /\ calls' = calls + 1
    /\ \/ \* client.audio.transcriptions.create raises
          /\ provider' = "raised"
          /\ TranscribeExcept
          /\ UNCHANGED tmpFiles
       \/ \E t \in SeqsUpTo(MsgChars, MaxMsgLen) :
          /\ provider' = "returned"
          /\ tmpFiles' = tmpFiles \ {tmpPath}
          /\ resp' = TextResp(t)
          /\ pc' = "done"
    /\ UNCHANGED <<req, text, logFailed, tmpPath, archive, chatLog, pestLog, nreq>>

\* ---- POST /detect_pest ----
PestFields == {"pest_name", "confidence", "description", "severity",
               "organic_treatments", "chemical_treatments", "prevention_tips"}

\* a JSON value of a field: a string literal (lit) or copied text (raw), a
\* number, an array of strings; "absent" when the object has no such key
FieldVal(type, lit, raw, items) == [type |-> type, lit |-> lit, raw |-> raw, items |-> items]
Str(lit) == FieldVal("string", lit, <<>>, <<>>)
Arr(items) == FieldVal("array", "", <<>>, items)
Absent == FieldVal("absent", "", <<>>, <<>>)

JNum(n) == [kind |-> "number", num |-> n, fields |-> [f \in PestFields |-> Absent]]
JObj(fields) == [kind |-> "object", num |-> 0, fields |-> fields]

\* the members of the objects the characters "O" and "B" stand for
Members(c) ==
    [pest_name |-> Str("Aphids"),
     confidence |-> IF c = "B" THEN FieldVal("number", "5", <<>>, <<>>) ELSE Str("High"),
     description |-> Str("Small green insects"),
     severity |-> Str("Mild"),
     organic_treatments |-> Arr(<<"neem oil">>),
     chemical_treatments |-> Arr(<<"imidacloprid">>),
     prevention_tips |-> Arr(<<"inspect weekly">>)]

RECURSIVE SkipWs(_, _)
SkipWs(t, i) == IF i <= Len(t) /\ t[i] = " " THEN SkipWs(t, i + 1) ELSE i

RECURSIVE SkipDigits(_, _)
SkipDigits(t, i) == IF i <= Len(t) /\ t[i] = "1" THEN SkipDigits(t, i + 1) ELSE i

RECURSIVE Ones(_)
Ones(n) == IF n = 0 THEN 0 ELSE 10 * Ones(n - 1) + 1

ParseFail == [ok |-> FALSE, val |-> NoJson, end |-> 0]

\* one JSON value starting at t[i]: a number, {} or an object with members
ParseValue(t, i) ==
    IF i > Len(t) THEN ParseFail
    ELSE IF t[i] = "1"
    THEN LET j == SkipDigits(t, i)
         IN [ok |-> TRUE, val |-> JNum(Ones(j - i)), end |-> j]
    ELSE IF t[i] = "{"
    THEN LET j == SkipWs(t, i + 1)
         IN IF j <= Len(t) /\ t[j] = "}"
            THEN [ok |-> TRUE, val |-> JObj([f \in PestFields |-> Absent]), end |-> j + 1]
            ELSE ParseFail
    ELSE IF t[i] \in {"O", "B"}
    THEN [ok |-> TRUE, val |-> JObj(Members(t[i])), end |-> i + 1]
    ELSE ParseFail

\* json.loads(text): one value between optional whitespace, else
\* JSONDecodeError
json_loads(t) ==
    LET v == ParseValue(t, SkipWs(t, 1))
    IN IF v.ok /\ SkipWs(t, v.end) > Len(t) THEN v ELSE ParseFail

\* the record built in "except json.JSONDecodeError"
FallbackRecord(t) ==
    JObj([pest_name |-> Str("Unknown Pest"),
          confidence |-> Str("N/A"),
          description |-> IF Strip(t) = <<>> THEN Str("Unable to parse model output.")
                          ELSE FieldVal("string", "", Strip(t), <<>>),
          severity |-> Str("Unknown"),
          organic_treatments |-> Arr(<<>>),
          chemical_treatments |-> Arr(<<>>),
          prevention_tips |-> Arr(<<>>)])

\* Image.open(...) / img.verify() on the uploaded bytes: "valid" bytes
\* pass, "unidentified" bytes raise UnidentifiedImageError, "broken" bytes
\* (a recognised container with corrupt content) raise another exception
Blobs == {"valid", "unidentified", "broken"}
\* the image check left out
image_check_skipped(blob) == "ok"

image_check(blob) ==
    CASE blob = "valid" -> "ok"
      [] blob = "unidentified" -> "UnidentifiedImageError"
      [] blob = "broken" -> "other"

Filenames == {"", "leaf 1.jpg"}

DetectRequests ==
    {[ep |-> "detect", hasFile |-> FALSE, filename |-> "", blob |-> "valid"]}
    \cup {[ep |-> "detect", hasFile |-> TRUE, filename |-> n, blob |-> b] :
             n \in Filenames, b \in Blobs}

ReceiveDetect == \E r \in DetectRequests : NewRequest(r)

ErrorStatuses == {"Error: image", "Error: io", "Error: provider",
                  "Error: Empty response from model"}

\* except Exception of detect_pest(): log_pest_upload(..., f"Error: {e}"),
\* then 500.  When the log write raises, the exception leaves the handler.
DetectExcept(failedBefore, status, logOk) ==
    /\ pestLog' = log_event(pestLog, req.filename, status, logOk)
    /\ logFailed' = (failedBefore \/ ~logOk)
    /\ resp' = IF logOk THEN JsonResp(500, "error", "Pest detection failed")
               ELSE Uncaught
    /\ pc' = "done"

\* detect_pest(), up to the image check
DetectValidate ==
    /\ pc = "received" /\ req.ep = "detect"
    /\ IF ~req.hasFile
       THEN /\ resp' = JsonResp(400, "error", "No file uploaded")
            /\ pc' = "done"
            /\ UNCHANGED <<pestLog, logFailed>>
       ELSE IF req.filename = ""
       THEN /\ resp' = JsonResp(400, "error", "No file selected")
            /\ pc' = "done"
            /\ UNCHANGED <<pestLog, logFailed>>
       ELSE CASE image_check(req.blob) = "ok" ->
                   /\ pc' = "validated"
                   /\ UNCHANGED <<resp, pestLog, logFailed>>
              [] image_check(req.blob) = "UnidentifiedImageError" ->
                   /\ resp' = JsonResp(400, "error", "Invalid or corrupted image file")
                   /\ pc' = "done"
                   /\ UNCHANGED <<pestLog, logFailed>>
              [] OTHER ->
                   \* not caught by "except UnidentifiedImageError"
                   \E ok \in BOOLEAN : DetectExcept(FALSE, "Error: image", ok)
    /\ UNCHANGED <<req, calls, provider, text, tmpPath, tmpFiles, archive, chatLog, nreq>>

\* detect_pest(), the archive copy and the temporary copy of the image
DetectStore ==
    /\ pc = "validated" /\ req.ep = "detect"
    /\ \E o \in {"ok", "archive_fails", "create_fails", "write_fails"} :
         CASE o = "ok" ->
                /\ archive' = archive \cup {nreq}
                /\ tmpFiles' = tmpFiles \cup {nreq}
                /\ tmpPath' = nreq
                /\ pc' = "stored"
                /\ UNCHANGED <<resp, pestLog, logFailed>>
           [] o = "archive_fails" ->
                /\ \E ok \in BOOLEAN : DetectExcept(FALSE, "Error: io", ok)
                /\ UNCHANGED <<archive, tmpFiles, tmpPath>>
           [] o = "create_fails" ->
                /\ archive' = archive \cup {nreq}
                /\ \E ok \in BOOLEAN : DetectExcept(FALSE, "Error: io", ok)
                /\ UNCHANGED <<tmpFiles, tmpPath>>
           [] o = "write_fails" ->
                \* the file exists, img_path was never assigned
                /\ archive' = archive \cup {nreq}
                /\ tmpFiles' = tmpFiles \cup {nreq}
                /\ \E ok \in BOOLEAN : DetectExcept(FALSE, "Error: io", ok)
                /\ UNCHANGED tmpPath
    /\ UNCHANGED <<req, calls, provider, text, chatLog, nreq>>

\* the text of one part: getattr(part, "text", "")
PartTexts == {<<>>} \cup {<<c>> : c \in TextChars}

\* the parts of candidate i, when asg maps each part to its candidate
CandParts(ps, asg, i) ==
    LET idx == {j \in 1..Len(ps) : asg[j] = i}
    IN IF idx = {} THEN <<>>
       ELSE LET lo == CHOOSE j \in idx : \A k \in idx : j <= k
                hi == CHOOSE j \in idx : \A k \in idx : j >= k
            IN SubSeq(ps, lo, hi)

\* for part in parts: text += part.text
RECURSIVE ConcatParts(_)
ConcatParts(parts) ==
    IF parts = <<>> THEN <<>> ELSE Head(parts) \o ConcatParts(Tail(parts))

\* for c in result.candidates: for part in c.content.parts: text += ...
RECURSIVE ConcatText(_)
ConcatText(cands) ==
    IF cands = <<>> THEN <<>> ELSE ConcatParts(Head(cands)) \o ConcatText(Tail(cands))

\* detect_pest(), the vision call, os.remove and the concatenated text
DetectDelegate ==
    /\ pc = "stored" /\ req.ep = "detect"
    /\ calls' = calls + 1
    /\ \/ \* model.generate_content raises: os.remove is skipped
          /\ provider' = "raised"
          /\ \E ok \in BOOLEAN : DetectExcept(FALSE, "Error: provider", ok)
          /\ UNCHANGED <<text, tmpFiles>>
       \/ \E n \in 0..MaxCands, ps \in SeqsUpTo(PartTexts, MaxParts) :
          \E asg \in [1..Len(ps) -> 1..n] :
             /\ \A j \in 1..(Len(ps) - 1) : asg[j] <= asg[j + 1]
             /\ LET result == [i \in 1..n |-> CandParts(ps, asg, i)]
                IN text' = ConcatText(result)
             /\ provider' = "returned"
             /\ tmpFiles' = tmpFiles \ {tmpPath}
             /\ pc' = "delegated"
             /\ UNCHANGED <<resp, pestLog, logFailed>>
    /\ UNCHANGED <<req, tmpPath, archive, chatLog, nreq>>

\* jsonify(pest_data)
PestResp(json) == [status |-> 200, body |-> Body("json", FALSE, "", <<>>, json)]

\* detect_pest(), the empty-output guard, the parse and the response
DetectNormalize ==
    /\ pc = "delegated" /\ req.ep = "detect"
    /\ IF Strip(text) = <<>>
       THEN \* raise ValueError("Empty response from model")
            \E ok \in BOOLEAN : DetectExcept(FALSE, "Error: Empty response from model", ok)
       ELSE LET parsed == json_loads(text)
                pest_data == IF parsed.ok THEN parsed.val ELSE FallbackRecord(text)
                status == IF parsed.ok THEN "Detection OK" ELSE "JSON parse fallback"
            IN \E ok1 \in BOOLEAN :
                 IF ok1
                 THEN /\ pestLog' = log_event(pestLog, req.filename, status, TRUE)
                      /\ resp' = PestResp(pest_data)
                      /\ pc' = "done"
                      /\ UNCHANGED logFailed
                 ELSE \* log_pest_upload raised: the outer handler runs
                      \E ok2 \in BOOLEAN : DetectExcept(TRUE, "Error: io", ok2)
    /\ UNCHANGED <<req, calls, provider, text, tmpPath, tmpFiles, archive, chatLog, nreq>>

Next == ReceiveChat \/ ChatValidate \/ ChatDelegate
        \/ ReceiveTranscribe \/ TranscribeValidate \/ TranscribeDelegate
        \/ ReceiveDetect \/ DetectValidate \/ DetectStore \/ DetectDelegate
        \/ DetectNormalize

Spec == Init /\ [][Next]_vars

\* ======================= properties =======================

\* a text that is JSON, stated on the stripped text: digits only, one of the
\* two object texts, or braces with nothing but whitespace between them
IsJsonText(t) ==
    LET s == Strip(t)
    IN /\ s # <<>>
       /\ \/ \A i \in 1..Len(s) : s[i] = "1"
          \/ s \in {<<"O">>, <<"B">>}
          \/ /\ Len(s) >= 2 /\ s[1] = "{" /\ s[Len(s)] = "}"
             /\ \A i \in 2..(Len(s) - 1) : s[i] = " "

IsBlank(m) == \A i \in 1..Len(m) : m[i] = " "

\* the request passes the validation of its endpoint
ValidRequest(r) ==
    CASE r.ep = "chat" -> r.json = "object" /\ r.msgKind = "string" /\ ~IsBlank(r.msg)
      [] r.ep = "transcribe" -> r.hasFile
      [] r.ep = "detect" -> r.hasFile /\ r.filename # "" /\ r.blob = "valid"
      [] OTHER -> FALSE

StringFields == {"pest_name", "confidence", "description", "severity"}

\* a record with the seven PestDetectionResult fields, each of its type
WellShaped(j) ==
    /\ j.kind = "object"
    /\ \A f \in PestFields :
         j.fields[f].type = IF f \in StringFields THEN "string" ELSE "array"

Done(ep) == pc = "done" /\ req.ep = ep

\* the entries the current request appended to a log
Mine(log) == SelectSeq(log, LAMBDA e : e.rid = nreq)

\* C1: once a /transcribe or /detect_pest request has completed, the
\* temporary file it created is absent from the filesystem.
C1_TempFileRemoved ==
    (pc = "done" /\ req.ep \in {"transcribe", "detect"}) => nreq \notin tmpFiles

\* C2: a /detect_pest upload that fails the image check, in whatever way,
\* is answered 400 "Invalid or corrupted image file", is not archived and
\* the vision client is not invoked.
C2_InvalidImageIs400 ==
    (Done("detect") /\ req.hasFile /\ req.filename # "" /\ req.blob # "valid")
    => /\ resp = JsonResp(400, "error", "Invalid or corrupted image file")
       /\ nreq \notin archive
       /\ calls = 0

\* C3: every 200 body of /detect_pest carries the seven fields of their
\* types; a text that is not the text of such a record yields the fallback
\* record.
C3_OkBodyIsWellShaped ==
    (Done("detect") /\ resp.status = 200)
    => /\ WellShaped(resp.body.json)
       /\ (Strip(text) # <<"O">> => resp.body.json = FallbackRecord(text))

\* C4: a valid image whose model text is not whitespace-only and is no JSON
\* is answered 200 with exactly the fallback record.
C4_NonJsonIsFallback200 ==
    (Done("detect") /\ provider = "returned" /\ ~IsBlank(text) /\ ~IsJsonText(text))
    => /\ resp.status = 200
       /\ resp.body.kind = "json"
       /\ resp.body.json.kind = "object"
       /\ resp.body.json.fields.pest_name = Str("Unknown Pest")
       /\ resp.body.json.fields.confidence = Str("N/A")
       /\ resp.body.json.fields.severity = Str("Unknown")
       /\ resp.body.json.fields.description.type = "string"
       /\ resp.body.json.fields.description.raw = Strip(text)
       /\ resp.body.json.fields.organic_treatments = Arr(<<>>)
       /\ resp.body.json.fields.chemical_treatments = Arr(<<>>)
       /\ resp.body.json.fields.prevention_tips = Arr(<<>>)

\* C4, for the requests whose log writes succeed
C4_WhenLogWritesSucceed == ~logFailed => C4_NonJsonIsFallback200

\* C5: a valid image whose model text is empty or whitespace-only is
\* answered 500 "Pest detection failed", never 200.
C5_EmptyTextIs500 ==
    (Done("detect") /\ provider = "returned" /\ IsBlank(text))
    => resp = JsonResp(500, "error", "Pest detection failed")

\* C5, for the requests whose log writes succeed
C5_WhenLogWritesSucceed == ~logFailed => C5_EmptyTextIs500

\* C6: a /chat request whose message is empty, whitespace-only or absent is
\* answered 400 "Please enter a valid message." and the completion client
\* is not invoked at any point of the request.
C6_BlankMessageIs400 ==
    (req.ep = "chat" /\ req.json = "object"
       /\ req.msgKind \in {"absent", "null", "string"} /\ IsBlank(req.msg))
    => /\ calls = 0
       /\ provider = "none"
       /\ pc \in {"received", "done"}
       /\ pc = "done" => resp = JsonResp(400, "reply", "Please enter a valid message.")

C6_Witness ==
    /\ Done("chat") /\ req.msgKind = "string" /\ req.msg = <<" ", " ">>
    /\ resp.status = 400 /\ calls = 0

\* C7: a /chat request with a non-blank message is answered 200 with a
\* non-null reply when the completion call succeeds; a result with no
\* choices or no content is answered 500 "Error processing your message.".
\* Stated for the requests whose log writes succeed.
C7_SuccessIsNonNullReply ==
    (Done("chat") /\ calls = 1 /\ ~logFailed)
    => /\ provider = "returned" => (resp.status = 200 /\ ~resp.body.null)
       /\ provider = "empty"
            => resp = JsonResp(500, "reply", "Error processing your message.")

\* C8: every request ends with a JSON response of its handler, no exception
\* leaves the handler, and a failed log write does not turn a successful
\* completion into an error.
C8_NoExceptionEscapes ==
    pc = "done"
    => /\ resp.body.kind # "uncaught"
       /\ (req.ep = "chat" /\ provider = "returned") => resp.status = 200

\* C9: within one request the provider is invoked at most once, only for a
\* request that passes validation and only after the validation step; a
\* failed invocation ends the request, with status 500.
C9_AtMostOneCallAfterValidation ==
    /\ calls <= 1
    /\ calls = 1 => (ValidRequest(req) /\ pc \in {"delegated", "done"})
    /\ pc \in {"idle", "received", "validated", "stored"} => calls = 0
    /\ provider = "raised" => (calls = 1 /\ pc = "done" /\ resp.status = 500)

C9_Witness ==
    /\ pc = "done" /\ req.ep = "detect" /\ provider = "raised"
    /\ calls = 1 /\ resp.status = 500

\* a step removes or changes no entry of the pest log
PestLogAppendOnly ==
    /\ Len(pestLog') >= Len(pestLog)
    /\ SubSeq(pestLog', 1, Len(pestLog)) = pestLog

\* once a /detect_pest request whose log writes succeeded is done: one entry
\* iff the status is 200 or 500, none iff 400, and the entry's status tells
\* the outcome
PestLogMatchesOutcome ==
    (Done("detect") /\ ~logFailed)
    => LET mine == Mine(pestLog)
       IN /\ resp.status \in {200, 400, 500}
          /\ resp.status = 400 <=> Len(mine) = 0
          /\ resp.status \in {200, 500} <=> Len(mine) = 1
          /\ Len(mine) = 1 =>
               /\ mine[1].status = "Detection OK"
                    <=> (resp.status = 200 /\ provider = "returned" /\ IsJsonText(text))
               /\ mine[1].status = "JSON parse fallback"
                    <=> (resp.status = 200 /\ resp.body.json = FallbackRecord(text))
               /\ mine[1].status \in ErrorStatuses <=> resp.status = 500

\* C10: with the log writes succeeding, a /detect_pest request appends one
\* entry to the pest log iff it ends in 200 or 500 and none when it ends in
\* 400, the entry's status matches the outcome, and no earlier entry is ever
\* changed or removed.
C10_PestLogOneEntryPerOutcome ==
    []PestLogMatchesOutcome /\ [][PestLogAppendOnly]_vars

C10_Witness ==
    /\ Done("detect") /\ ~logFailed /\ Len(pestLog) = 2
    /\ pestLog[1].rid = 1 /\ pestLog[1].status \in ErrorStatuses
    /\ pestLog[2].status = "JSON parse fallback" /\ resp.status = 200
====
